---- MODULE Spec2Model ----
(***************************************************************************)
(* Model of src/main.py: a single linear run that loads configuration,     *)
(* reads a SQL file, authenticates with Google, queries Trino, creates a   *)
(* Google Sheet, writes the result into it (in one request or in batches   *)
(* of BATCH_SIZE rows) and moves the sheet into a Drive folder.  The three *)
(* Google calls each run inside a `for retry in range(MAX_RETRIES)` loop   *)
(* with exponential backoff.                                               *)
(*                                                                         *)
(* Rows of the table sent to the sheet are identified by their position in *)
(* `values` (row 1 is the header).  A run of consecutive rows lo..hi is a  *)
(* block [lo |-> lo, hi |-> hi]; a request body and the sheet content are  *)
(* sequences of rows kept as sequences of blocks.                          *)
(***************************************************************************)
EXTENDS Integers, Sequences, FiniteSets, TLC

VARIABLES
    env,        \* names of the environment variables holding a non-empty value
    pc,         \* the statement of main() that runs next, "done" or "failed"
    config,     \* the keys of the dict load_config returned that hold a value
    log,        \* messages logged by main() itself, in order
    raised,     \* the exception that left main(), or NoError
    started,    \* the stages of main() entered so far, in order
    authSteps,  \* what get_google_credentials did, in order
    conn,       \* the Trino connection: "none", "open" or "closed"
    nrows,      \* len(df): the number of data rows the query returned
    sheet,      \* TRUE once the spreadsheet exists
    sink,       \* the rows of Sheet1, top to bottom, as a sequence of blocks
    parents,    \* the Drive parents of the spreadsheet file
    call,       \* the function whose frame the next variables hold
    callState,  \* "running", "returned" or "raised"
    retry,      \* the loop variable of `for retry in range(MAX_RETRIES)`
    i,          \* the index of the batch to write next
    got,        \* move_sheet_to_folder: the parents read in this attempt, or NotRead
    waits,      \* the time.sleep() arguments of this call, in order
    hist,       \* the outcome of every attempt of this call, in order
    reqs,       \* the network requests of this call, in order
    prep        \* a call of prepare_dataframe_for_sheets taken on its own

vars == << env, pc, config, log, raised, started, authSteps, conn, nrows, sheet,
           sink, parents, call, callState, retry, i, got, waits, hist, reqs,
           prep >>

(***************************************************************************)
(* Bounds of the model.                                                    *)
(***************************************************************************)
\* The query returns at most MaxBatches * BATCH_SIZE rows (header included).
MaxBatches == 3

(***************************************************************************)
(* Program constants.                                                      *)
(***************************************************************************)
\* A budget of six passes instead of five.
MAX_RETRIES_six == 5 + 1

MAX_RETRIES == 5

INITIAL_RETRY_DELAY == 1

BATCH_SIZE == 5000

\* The statuses the except clauses treat as retryable.
RETRYABLE == {429, 500, 502, 503, 504}

required_vars ==
    { "TRINO_HOST", "TRINO_PORT", "TRINO_USER", "TRINO_CATALOG", "TRINO_SCHEMA",
      "GOOGLE_CLIENT_SECRET_FILE", "TOKEN_PATH", "DRIVE_FOLDER_ID" }

\* Every variable load_config reads with os.getenv.
read_vars == required_vars \cup { "TRINO_PASSWORD" }

DRIVE_FOLDER == "folder"

(***************************************************************************)
(* The environment of the run: what an external request can answer.        *)
(***************************************************************************)
\* HTTP error statuses a Google API request can raise as HttpError.
HttpStatuses == {400, 403, 404, 429, 500, 501, 502, 503, 504}

\* An outcome of one request: success, an HttpError with a status, or any
\* other exception (a transport error, a timeout).
Outcomes ==
    { [kind |-> "ok", status |-> 200] }
    \cup { [kind |-> "http", status |-> s] : s \in HttpStatuses }
    \cup { [kind |-> "other", status |-> 0] }

\* An exception: its type, what caused it (the kind and status of the failed
\* request, or a word), and for load_config the variables it lists.
Error(type, kind, status, missing) ==
    [type |-> type, kind |-> kind, status |-> status, missing |-> missing]

NoError == Error("none", "none", 0, {})

\* move_sheet_to_folder before files().get answered in this pass.
NotRead == [read |-> FALSE, parents |-> {}]

Min(a, b) == IF a < b THEN a ELSE b


(***************************************************************************)
(* The retry policy: the loop header and the except clauses, the same in   *)
(* create_google_sheet, both branches of write_dataframe_to_sheet and      *)
(* move_sheet_to_folder.                                                   *)
(***************************************************************************)
\* `for retry in range(MAX_RETRIES)`: the loop body runs for this value.
InRange(r) == r < MAX_RETRIES

\* A backoff that grows by the initial delay instead of doubling.
Backoff_linear(r) == INITIAL_RETRY_DELAY * (r + 1)

\* wait_time = INITIAL_RETRY_DELAY * (2 ** retry)
Backoff(r) == INITIAL_RETRY_DELAY * (2 ^ r)

\* Except clauses that retry an HttpError of any status.
Raises_anyStatus(r, o) ==
    IF o.kind = "http" THEN r >= MAX_RETRIES - 1 ELSE TRUE

\* Except clauses that compare retry with MAX_RETRIES instead of MAX_RETRIES - 1.
Raises_lateExhaust(r, o) ==
    IF o.kind = "http"
    THEN r >= MAX_RETRIES \/ o.status \notin RETRYABLE
    ELSE TRUE

\* The except clauses: TRUE when the exception of outcome o, caught in the
\* pass with loop variable r, is re-raised as RuntimeError; FALSE when the
\* pass sleeps and the loop goes on.  "build" is build() itself raising.
Raises(r, o) ==
    IF o.kind = "http"
    THEN r >= MAX_RETRIES - 1 \/ o.status \notin RETRYABLE
    ELSE TRUE

(***************************************************************************)
(* What the environment calls a transient failure: rate limiting and the   *)
(* server errors 500, 502, 503, 504.  hist and reqs record outcomes by     *)
(* this classification, whatever the except clauses decide.                *)
(***************************************************************************)
Transient(o) == o.kind = "http" /\ o.status \in {429, 500, 502, 503, 504}

Kind(o) ==
    IF o.kind = "ok" THEN "ok"
    ELSE IF Transient(o) THEN "transient"
    ELSE IF o.kind = "http" THEN "permanent"
    ELSE "other"

\* Outcomes of the first statement group of a pass: build() may raise before
\* any request is issued.
PassOutcomes == Outcomes \cup { [kind |-> "build", status |-> 0] }

(***************************************************************************)
(* Rows, blocks and the sheet.                                             *)
(***************************************************************************)
BlockLen(b) == b.hi - b.lo + 1

RECURSIVE SheetLen(_)
\* The number of rows of a sequence of blocks.
SheetLen(s) == IF s = << >> THEN 0 ELSE BlockLen(Head(s)) + SheetLen(Tail(s))

RECURSIVE RowAt(_, _)
\* The row at position k (from 1) of a sequence of blocks, 1 <= k <= SheetLen(s).
RowAt(s, k) ==
    IF k <= BlockLen(Head(s))
    THEN Head(s).lo + k - 1
    ELSE RowAt(Tail(s), k - BlockLen(Head(s)))

RECURSIVE DropRows(_, _)
\* s without its first k rows.
DropRows(s, k) ==
    IF k = 0 \/ s = << >> THEN s
    ELSE IF BlockLen(Head(s)) <= k
         THEN DropRows(Tail(s), k - BlockLen(Head(s)))
         ELSE << [lo |-> Head(s).lo + k, hi |-> Head(s).hi] >> \o Tail(s)

\* spreadsheets().values().update(range='Sheet1!A1', body): the rows from row
\* 1 on are overwritten by the body; rows below the body stay.
values_update(s, body) == body \o DropRows(s, SheetLen(body))

\* spreadsheets().values().append(range, insertDataOption='INSERT_ROWS', body):
\* the body is inserted below the last row of the table found at the range.
values_append(s, body) == s \o body

\* `values` built from the data rows alone, the header row forgotten.
len_values_noheader(n) == n

\* len(values): the header row and the data rows.
len_values(n) == 1 + n

\* len(range(start, stop, step)) for step > 0.
RangeLen(start, stop, step) ==
    IF stop <= start THEN 0 ELSE (stop - start + step - 1) \div step

\* values[a:b] of a list of `total` rows (Python slice, 0-based, clipped).
Slice(total, a, b) ==
    IF Min(b, total) <= a THEN << >>
    ELSE << [lo |-> a + 1, hi |-> Min(b, total)] >>

\* Slices one row short: values[i:i + BATCH_SIZE - 1].
batches_short(total) ==
    [ k \in 1..RangeLen(0, total, BATCH_SIZE) |->
        Slice(total, (k - 1) * BATCH_SIZE, (k - 1) * BATCH_SIZE + BATCH_SIZE - 1) ]

\* batches = [values[i:i + BATCH_SIZE] for i in range(0, len(values), BATCH_SIZE)]
batches(total) ==
    [ k \in 1..RangeLen(0, total, BATCH_SIZE) |->
        Slice(total, (k - 1) * BATCH_SIZE, (k - 1) * BATCH_SIZE + BATCH_SIZE) ]

\* if len(values) > BATCH_SIZE
UseBatches(total) == total > BATCH_SIZE

\* A range start computed from 0-based rows: the `+ 1` is missing.
start_row_zeroBased(k) == IF k = 0 THEN 1 ELSE k * BATCH_SIZE

\* start_range = f'Sheet1!A{1 if i == 0 else (i * BATCH_SIZE) + 1}'
start_row(k) == IF k = 0 THEN 1 ELSE (k * BATCH_SIZE) + 1

\* A new pass that resumes at the batch that failed.
PassStart_resume(k) == k

\* `for i, batch in enumerate(batches)`: the batch a new pass starts with,
\* after a pass that failed at batch k.
PassStart(k) == 0

\* `if i == 0`: update for the first batch, append for the rest.
batch_op(k) == IF k = 0 THEN "update" ELSE "append"

\* The row counts (header included) the query is let to produce.
RowCounts ==
    {1, 2, BATCH_SIZE - 1}
    \cup { k * BATCH_SIZE : k \in 1..MaxBatches }
    \cup { k * BATCH_SIZE + d : k \in 1..(MaxBatches - 1), d \in {1, 201} }


(***************************************************************************)
(* main(): the except clause and the frame of the function being called.   *)
(***************************************************************************)
\* The calls of main() in the order of its statements.
Statements ==
    << "load_config", "read_sql_from_file", "get_google_credentials",
       "execute_trino_query", "create_google_sheet", "write_dataframe_to_sheet",
       "move_sheet_to_folder" >>

\* main() with the move placed before the write.
NextStatement_moveFirst(f) ==
    LET order == << "load_config", "read_sql_from_file", "get_google_credentials",
                    "execute_trino_query", "create_google_sheet",
                    "move_sheet_to_folder", "write_dataframe_to_sheet" >>
        k == CHOOSE n \in 1..Len(order) : order[n] = f
    IN  IF k = Len(order) THEN "done" ELSE order[k + 1]

\* The statement of main() after the call of f returned.
NextStatement(f) ==
    LET k == CHOOSE n \in 1..Len(Statements) : Statements[n] = f
    IN  IF k = Len(Statements) THEN "done" ELSE Statements[k + 1]

\* An except clause that logs the failure and does not re-raise: main() goes
\* on with the statement after the one that failed.
MainFails_swallow(said, e) ==
    /\ pc' = NextStatement(pc)
    /\ log' = log \o said \o << "Script failed" >>
    /\ raised' = e

\* except Exception as e: logger.error(f"Script failed: {e}"); raise
\* `said` is what main() logged in this step before the exception.
MainFails(said, e) ==
    /\ pc' = "failed"
    /\ log' = log \o said \o << "Script failed" >>
    /\ raised' = e

\* The locals of a function that has no retry loop, or has not started it.
FreshFrame ==
    /\ retry' = 0
    /\ i' = 0
    /\ got' = NotRead
    /\ waits' = << >>
    /\ hist' = << >>
    /\ reqs' = << >>

\* No call of prepare_dataframe_for_sheets is being looked at.
PrepIdle == [pc |-> "idle"]

Init ==
    /\ prep = PrepIdle
    /\ env \in SUBSET read_vars
    /\ pc = "load_config"
    /\ config = {}
    /\ log = << >>
    /\ raised = NoError
    /\ started = << >>
    /\ authSteps = << >>
    /\ conn = "none"
    /\ nrows = 0
    /\ sheet = FALSE
    /\ sink = << >>
    /\ parents = {}
    /\ call = "main"
    /\ callState = "running"
    /\ retry = 0
    /\ i = 0
    /\ got = NotRead
    /\ waits = << >>
    /\ hist = << >>
    /\ reqs = << >>

(***************************************************************************)
(* load_config                                                             *)
(***************************************************************************)
\* missing_vars = [var for var in required_vars if not os.getenv(var)]
missing_vars(e) == { v \in required_vars : v \notin e }

\* portIsInt: whether int(os.getenv('TRINO_PORT')) parses.
load_config ==
    /\ pc = "load_config"
    /\ started' = Append(started, "load_config")
    /\ call' = "load_config"
    /\ FreshFrame
    /\ \E portIsInt \in BOOLEAN :
         IF missing_vars(env) # {}
         THEN /\ callState' = "raised"
              /\ config' = config
              /\ MainFails(<< "Loading configuration" >>,
                           Error("ValueError", "missing", 0, missing_vars(env)))
         ELSE IF ~portIsInt
         THEN /\ callState' = "raised"
              /\ config' = config
              /\ MainFails(<< "Loading configuration" >>,
                           Error("ValueError", "int", 0, {}))
         ELSE /\ callState' = "returned"
              /\ config' = env \cap read_vars
              /\ pc' = NextStatement("load_config")
              /\ log' = Append(log, "Loading configuration")
              /\ raised' = raised
    /\ UNCHANGED << prep, env, authSteps, conn, nrows, sheet, sink, parents >>

(***************************************************************************)
(* read_sql_from_file                                                      *)
(***************************************************************************)
read_sql_from_file ==
    /\ pc = "read_sql_from_file"
    /\ started' = Append(started, "read_sql_from_file")
    /\ call' = "read_sql_from_file"
    /\ FreshFrame
    /\ \E readOk \in BOOLEAN :
         IF readOk
         THEN /\ callState' = "returned"
              /\ pc' = NextStatement("read_sql_from_file")
              /\ UNCHANGED << log, raised >>
         ELSE /\ callState' = "raised"
              /\ MainFails(<< >>, Error("RuntimeError", "read", 0, {}))
    /\ UNCHANGED << prep, env, config, authSteps, conn, nrows, sheet, sink, parents >>

(***************************************************************************)
(* get_google_credentials                                                  *)
(***************************************************************************)
\* The inputs of one authentication: the token file exists, it loads, the
\* loaded credentials are valid / expired / hold a refresh token, the refresh
\* succeeds, the OAuth flow succeeds, the token file can be written.
AuthInputs ==
    [ tokenExists : BOOLEAN, loadOk : BOOLEAN, valid : BOOLEAN, expired : BOOLEAN,
      hasRefresh : BOOLEAN, refreshOk : BOOLEAN, flowOk : BOOLEAN, saveOk : BOOLEAN ]

\* get_google_credentials without the try/except around the token load: a
\* token file that does not load raises instead of falling back to the flow.
AuthRun_loadRaises(in) ==
    LET loaded == in.tokenExists /\ in.loadOk
        loadFails == in.tokenExists /\ ~in.loadOk
        s1 == IF ~in.tokenExists THEN << >>
              ELSE IF in.loadOk THEN << "load_token" >>
              ELSE << "load_token", "load_failed" >>
        valid1 == loaded /\ in.valid
        doRefresh == ~valid1 /\ loaded /\ in.expired /\ in.hasRefresh
        s2 == IF ~doRefresh THEN << >>
              ELSE IF in.refreshOk THEN << "refresh" >>
              ELSE << "refresh", "refresh_failed" >>
        have2 == IF doRefresh THEN in.refreshOk ELSE loaded
        valid2 == IF doRefresh THEN in.refreshOk ELSE valid1
        doFlow == ~loadFails /\ ~valid1 /\ (~have2 \/ ~valid2)
        s3 == IF ~doFlow THEN << >>
              ELSE IF ~in.flowOk THEN << "oauth_flow", "oauth_flow_failed" >>
              ELSE IF in.saveOk THEN << "oauth_flow", "save_token" >>
              ELSE << "oauth_flow", "save_token_failed" >>
    IN  [ steps |-> s1 \o s2 \o s3,
          ok |-> ~loadFails /\ (~doFlow \/ (in.flowOk /\ in.saveOk)),
          err |-> IF loadFails \/ (doFlow /\ ~in.flowOk)
                  THEN Error("RuntimeError", "oauth_flow", 0, {})
                  ELSE Error("OSError", "save_token", 0, {}) ]

\* What get_google_credentials does on these inputs: its steps in order,
\* whether it returns credentials, and the exception it raises otherwise.
AuthRun(in) ==
    LET loaded == in.tokenExists /\ in.loadOk
        s1 == IF ~in.tokenExists THEN << >>
              ELSE IF in.loadOk THEN << "load_token" >>
              ELSE << "load_token", "load_failed" >>
        valid1 == loaded /\ in.valid
        doRefresh == ~valid1 /\ loaded /\ in.expired /\ in.hasRefresh
        s2 == IF ~doRefresh THEN << >>
              ELSE IF in.refreshOk THEN << "refresh" >>
              ELSE << "refresh", "refresh_failed" >>
        have2 == IF doRefresh THEN in.refreshOk ELSE loaded
        valid2 == IF doRefresh THEN in.refreshOk ELSE valid1
        doFlow == ~valid1 /\ (~have2 \/ ~valid2)
        s3 == IF ~doFlow THEN << >>
              ELSE IF ~in.flowOk THEN << "oauth_flow", "oauth_flow_failed" >>
              ELSE IF in.saveOk THEN << "oauth_flow", "save_token" >>
              ELSE << "oauth_flow", "save_token_failed" >>
    IN  [ steps |-> s1 \o s2 \o s3,
          ok |-> ~doFlow \/ (in.flowOk /\ in.saveOk),
          err |-> IF doFlow /\ ~in.flowOk
                  THEN Error("RuntimeError", "oauth_flow", 0, {})
                  ELSE Error("OSError", "save_token", 0, {}) ]

get_google_credentials ==
    /\ pc = "get_google_credentials"
    /\ started' = Append(started, "get_google_credentials")
    /\ call' = "get_google_credentials"
    /\ FreshFrame
    /\ \E in \in AuthInputs :
         LET r == AuthRun(in) IN
         /\ authSteps' = r.steps
         /\ IF r.ok
            THEN /\ callState' = "returned"
                 /\ pc' = NextStatement("get_google_credentials")
                 /\ log' = Append(log, "Authenticating with Google")
                 /\ raised' = raised
            ELSE /\ callState' = "raised"
                 /\ MainFails(<< "Authenticating with Google" >>, r.err)
    /\ UNCHANGED << prep, env, config, conn, nrows, sheet, sink, parents >>

(***************************************************************************)
(* execute_trino_query                                                     *)
(***************************************************************************)
\* connectOk: trino.dbapi.connect returns; queryOk: pd.read_sql returns, with
\* total - 1 data rows.  conn.close() runs only after pd.read_sql returned.
execute_trino_query ==
    /\ pc = "execute_trino_query"
    /\ started' = Append(started, "execute_trino_query")
    /\ call' = "execute_trino_query"
    /\ FreshFrame
    /\ authSteps' = << >>
    /\ \E connectOk \in BOOLEAN, queryOk \in BOOLEAN, total \in RowCounts :
         IF connectOk /\ queryOk
         THEN /\ conn' = "closed"
              /\ nrows' = total - 1
              /\ callState' = "returned"
              /\ pc' = NextStatement("execute_trino_query")
              /\ UNCHANGED << log, raised >>
         ELSE /\ conn' = IF connectOk THEN "open" ELSE "none"
              /\ nrows' = nrows
              /\ callState' = "raised"
              /\ MainFails(<< >>, Error("RuntimeError", "query", 0, {}))
    /\ UNCHANGED << prep, env, config, sheet, sink, parents >>


(***************************************************************************)
(* The resilient calls.  Each pass of a retry loop is one step per request *)
(* it issues; the step holds the except clause that the request's failure  *)
(* runs, the sleep included.                                               *)
(***************************************************************************)
\* A request as the server saw it: the method, the first row of its range and
\* its rows (0 and << >> when it has none), the pass that issued it and how
\* it ended.
Req(op, start, body, kind) ==
    [op |-> op, start |-> start, body |-> body, retry |-> retry, kind |-> kind]

\* The function is entered: its locals are fresh.
Enter(f) ==
    /\ pc = f
    /\ call # f
    /\ call' = f
    /\ callState' = "running"
    /\ started' = Append(started, f)
    /\ FreshFrame
    /\ authSteps' = << >>
    /\ UNCHANGED << prep, env, pc, config, log, raised, conn, nrows, sheet, sink, parents >>

\* The function is running a pass of its retry loop.
Running(f) ==
    /\ pc = f
    /\ call = f
    /\ callState = "running"
    /\ InRange(retry)

\* A retry loop that sleeps and tries again without taking the next value of
\* `retry`.
AttemptFailed_noAdvance(o) ==
    /\ hist' = Append(hist, Kind(o))
    /\ IF Raises(retry, o)
       THEN /\ waits' = waits
            /\ retry' = retry
            /\ callState' = "raised"
            /\ MainFails(<< >>, Error("RuntimeError", o.kind, o.status, {}))
       ELSE /\ waits' = Append(waits, Backoff(retry))
            /\ retry' = retry
            /\ callState' = "running"
            /\ UNCHANGED << pc, log, raised >>

\* A pass ends with the exception of outcome o: the except clauses either
\* raise RuntimeError, or sleep and let the loop take its next value; a loop
\* that runs out of values reaches the raise after it.
AttemptFailed(o) ==
    /\ hist' = Append(hist, Kind(o))
    /\ IF Raises(retry, o)
       THEN /\ waits' = waits
            /\ retry' = retry
            /\ callState' = "raised"
            /\ MainFails(<< >>, Error("RuntimeError", o.kind, o.status, {}))
       ELSE /\ waits' = Append(waits, Backoff(retry))
            /\ retry' = retry + 1
            /\ IF InRange(retry + 1)
               THEN /\ callState' = "running"
                    /\ UNCHANGED << pc, log, raised >>
               ELSE /\ callState' = "raised"
                    /\ MainFails(<< >>, Error("RuntimeError", "after retries", 0, {}))

\* A pass ends with `return`: main() goes on with its next statement.
Returns(said) ==
    /\ hist' = Append(hist, "ok")
    /\ callState' = "returned"
    /\ pc' = NextStatement(call)
    /\ log' = log \o said
    /\ UNCHANGED << retry, waits, raised >>

\* The request log after a pass statement with outcome o: build() raising
\* issues no request.
Issued(o, op, start, body) ==
    IF o.kind = "build" THEN reqs ELSE Append(reqs, Req(op, start, body, Kind(o)))

(***************************************************************************)
(* create_google_sheet                                                     *)
(***************************************************************************)
create_google_sheet ==
    /\ pc = "create_google_sheet"
    /\ Enter("create_google_sheet")

create_attempt ==
    /\ Running("create_google_sheet")
    /\ \E o \in PassOutcomes :
         /\ reqs' = Issued(o, "create", 0, << >>)
         /\ IF o.kind = "ok"
            THEN /\ sheet' = TRUE
                 /\ parents' = { "root" }
                 /\ Returns(<< >>)
            ELSE /\ AttemptFailed(o)
                 /\ UNCHANGED << sheet, parents >>
    /\ UNCHANGED << prep, env, config, started, authSteps, conn, nrows, sink,
                    call, i, got >>

(***************************************************************************)
(* write_dataframe_to_sheet                                                *)
(***************************************************************************)
write_dataframe_to_sheet ==
    /\ pc = "write_dataframe_to_sheet"
    /\ Enter("write_dataframe_to_sheet")

\* The else branch: one update of Sheet1!A1 with all of `values`.
write_single ==
    /\ Running("write_dataframe_to_sheet")
    /\ ~UseBatches(len_values(nrows))
    /\ LET values == Slice(len_values(nrows), 0, len_values(nrows)) IN
       \E o \in PassOutcomes :
         /\ reqs' = Issued(o, "update", 1, values)
         /\ IF o.kind = "ok"
            THEN /\ sink' = values_update(sink, values)
                 /\ Returns(<< >>)
            ELSE /\ AttemptFailed(o)
                 /\ sink' = sink
    /\ UNCHANGED << prep, env, config, started, authSteps, conn, nrows, sheet, parents,
                    call, i, got >>

\* The batched branch: the request of batch i of the current pass.  A failed
\* request ends the pass; the next pass enumerates the batches from 0 again.
write_batch ==
    /\ Running("write_dataframe_to_sheet")
    /\ UseBatches(len_values(nrows))
    /\ LET bs == batches(len_values(nrows)) IN
       \E o \in (IF i = 0 THEN PassOutcomes ELSE Outcomes) :
         /\ reqs' = Issued(o, batch_op(i), start_row(i), bs[i + 1])
         /\ IF o.kind = "ok"
            THEN /\ sink' = IF batch_op(i) = "update"
                            THEN values_update(sink, bs[i + 1])
                            ELSE values_append(sink, bs[i + 1])
                 /\ IF i + 1 < Len(bs)
                    THEN /\ i' = i + 1
                         /\ UNCHANGED << pc, log, raised, callState, retry, waits, hist >>
                    ELSE /\ i' = i
                         /\ Returns(<< >>)
            ELSE /\ AttemptFailed(o)
                 /\ i' = PassStart(i)
                 /\ sink' = sink
    /\ UNCHANGED << prep, env, config, started, authSteps, conn, nrows, sheet, parents,
                    call, got >>

(***************************************************************************)
(* move_sheet_to_folder                                                    *)
(***************************************************************************)
move_sheet_to_folder ==
    /\ pc = "move_sheet_to_folder"
    /\ Enter("move_sheet_to_folder")

\* A move that adds the destination folder and removes no parent.
previous_parents_none(file) == {}

\* previous_parents = ",".join(file.get('parents', []))
previous_parents(file) == file.parents

\* files().get(fileId, fields='parents'); the request log keeps the parents
\* the response carried.
move_get ==
    /\ Running("move_sheet_to_folder")
    /\ ~got.read
    /\ \E o \in PassOutcomes :
         /\ reqs' = Issued(o, "get", 0, IF o.kind = "ok" THEN << parents >> ELSE << >>)
         /\ IF o.kind = "ok"
            THEN /\ got' = [read |-> TRUE, parents |-> parents]
                 /\ UNCHANGED << pc, log, raised, callState, retry, waits, hist >>
            ELSE /\ AttemptFailed(o)
                 /\ got' = NotRead
    /\ UNCHANGED << prep, env, config, started, authSteps, conn, nrows, sheet, sink,
                    parents, call, i >>

\* files().update(fileId, addParents=folder_id, removeParents=previous_parents);
\* the request log keeps the removeParents argument.
move_update ==
    /\ Running("move_sheet_to_folder")
    /\ got.read
    /\ \E o \in Outcomes :
         /\ reqs' = Issued(o, "update_parents", 0, << previous_parents(got) >>)
         /\ IF o.kind = "ok"
            THEN /\ parents' = (parents \ previous_parents(got)) \cup { DRIVE_FOLDER }
                 /\ got' = got
                 /\ Returns(<< "Script completed successfully" >>)
            ELSE /\ AttemptFailed(o)
                 /\ parents' = parents
                 /\ got' = NotRead
    /\ UNCHANGED << prep, env, config, started, authSteps, conn, nrows, sheet, sink,
                    call, i >>

(***************************************************************************)
(* The run.                                                                *)
(***************************************************************************)
Next ==
    \/ load_config
    \/ read_sql_from_file
    \/ get_google_credentials
    \/ execute_trino_query
    \/ create_google_sheet
    \/ create_attempt
    \/ write_dataframe_to_sheet
    \/ write_single
    \/ write_batch
    \/ move_sheet_to_folder
    \/ move_get
    \/ move_update

Spec == Init /\ [][Next]_vars

\* The interpreter runs the one thread of main() on: a statement that can be
\* executed is executed, and every request returns or raises.
FairSpec == Spec /\ WF_vars(Next)


(***************************************************************************)
(* prepare_dataframe_for_sheets, taken on its own: a table of typed        *)
(* columns is normalised, encoded with json.dumps and decoded again.       *)
(* A cell is [t, v]: t is what the value is ("None", "nan", "NaT", "num",  *)
(* "str", "Timestamp") and v its text.                                     *)
(***************************************************************************)
\* The tables looked at have MaxCols columns and MaxRows rows.
MaxCols == 2

MaxRows == 2

Cell(t, v) == [t |-> t, v |-> v]

None == Cell("None", "")

NaN == Cell("nan", "")

NaT == Cell("NaT", "")

Column(dtype, cells) == [dtype |-> dtype, cells |-> cells]

\* The columns a query result can hold: a datetime64 column (timestamps and
\* NaT), a float64 column (numbers and NaN) and an object column (None,
\* strings, numbers and timestamp objects).
InputColumns ==
    { Column("datetime64[ns]", c) :
        c \in [1..MaxRows -> { Cell("Timestamp", "2024-01-01 00:00:00"), NaT }] }
    \cup { Column("float64", c) : c \in [1..MaxRows -> { Cell("num", "1.5"), NaN }] }
    \cup { Column("object", c) :
             c \in [1..MaxRows -> { None, Cell("str", "a"), Cell("num", "1"),
                                    Cell("Timestamp", "2024-01-01 00:00:00") }] }

\* str(x) of one cell, as Series.astype(str) applies it: None, NaN and NaT
\* become the strings 'None', 'nan' and 'NaT'.
str_of(c) == Cell("str", IF c.t \in { "None", "nan", "NaT" } THEN c.t ELSE c.v)

\* df_copy[col] = df_copy[col].astype(str)
astype_str(col) == Column("object", [k \in DOMAIN col.cells |-> str_of(col.cells[k])])

\* date_cols = df_copy.select_dtypes(include=['datetime', ...]).columns, and
\* the loop that turns them into strings.
convert_date_cols(df) ==
    [c \in DOMAIN df |-> IF df[c].dtype = "datetime64[ns]" THEN astype_str(df[c]) ELSE df[c]]

IsNull(c) == c.t \in { "None", "nan", "NaT" }

\* df_copy.replace({pd.NA: None, pd.NaT: None}) and
\* df_copy.where(pd.notnull(df_copy), None): null cells of an object column
\* become None; a float64 column either becomes an object column holding
\* None or keeps its NaN, depending on the pandas release (nanToNone).
replace_nulls(df, nanToNone) ==
    [c \in DOMAIN df |->
        IF df[c].dtype = "object" \/ (nanToNone /\ \E k \in DOMAIN df[c].cells : IsNull(df[c].cells[k]))
        THEN Column("object",
                    [k \in DOMAIN df[c].cells |->
                        IF IsNull(df[c].cells[k]) THEN None ELSE df[c].cells[k]])
        ELSE df[c]]

\* json.dumps accepts the cell: None, strings and numbers, and NaN too
\* (allow_nan is left at its default); a Timestamp or NaT raises TypeError.
Serializable(c) == c.t \notin { "Timestamp", "NaT" }

\* The loop over df_copy.columns: a column json.dumps rejects is turned into
\* strings as a whole.
convert_failing_cols(df) ==
    [c \in DOMAIN df |->
        IF \A k \in DOMAIN df[c].cells : Serializable(df[c].cells[k])
        THEN df[c] ELSE astype_str(df[c])]

\* The last resort: when the whole table still fails, every column is
\* turned into strings.
convert_all_if_failing(df) ==
    IF \A c \in DOMAIN df : \A k \in DOMAIN df[c].cells : Serializable(df[c].cells[k])
    THEN df
    ELSE [c \in DOMAIN df |-> astype_str(df[c])]

\* The table prepare_dataframe_for_sheets returns for df.
prepare(df, nanToNone) ==
    convert_all_if_failing(
        convert_failing_cols(replace_nulls(convert_date_cols(df), nanToNone)))

\* df.values.tolist(): the rows of the table.
values_tolist(df) ==
    [r \in 1..MaxRows |-> [c \in DOMAIN df |-> df[c].cells[r]]]

\* json.dumps of one cell: null, a string, a number or the token NaN.
dumps_cell(c) ==
    IF c.t = "None" THEN [j |-> "null", text |-> "null"]
    ELSE IF c.t = "nan" THEN [j |-> "number", text |-> "NaN"]
    ELSE IF c.t = "num" THEN [j |-> "number", text |-> c.v]
    ELSE [j |-> "string", text |-> c.v]

\* json.loads of one encoded cell.
loads_cell(e) ==
    IF e.j = "null" THEN None
    ELSE IF e.j = "number" THEN (IF e.text = "NaN" THEN NaN ELSE Cell("num", e.text))
    ELSE Cell("str", e.text)

InitPrepare ==
    /\ prep \in { [pc |-> "call", orig |-> t, df |-> t, nanToNone |-> b,
                   out |-> << >>, wire |-> << >>, back |-> << >>] :
                  t \in [1..MaxCols -> InputColumns], b \in BOOLEAN }
    /\ env = read_vars
    /\ pc = "write_dataframe_to_sheet"
    /\ config = read_vars
    /\ log = << >>
    /\ raised = NoError
    /\ started = << >>
    /\ authSteps = << >>
    /\ conn = "closed"
    /\ nrows = MaxRows
    /\ sheet = TRUE
    /\ sink = << >>
    /\ parents = { "root" }
    /\ call = "prepare_dataframe_for_sheets"
    /\ callState = "running"
    /\ retry = 0
    /\ i = 0
    /\ got = NotRead
    /\ waits = << >>
    /\ hist = << >>
    /\ reqs = << >>

MainVars ==
    << env, pc, config, log, raised, started, authSteps, conn, nrows, sheet,
       sink, parents, call, callState, retry, i, got, waits, hist, reqs >>

\* The function works on df.copy(deep=True) and returns the copy.
prepare_dataframe_for_sheets ==
    /\ prep.pc = "call"
    /\ prep' = [prep EXCEPT !.pc = "prepared", !.out = prepare(prep.df, prep.nanToNone)]
    /\ UNCHANGED MainVars

\* json.dumps(df_prepared.values.tolist())
json_dumps ==
    /\ prep.pc = "prepared"
    /\ LET rows == values_tolist(prep.out) IN
       IF \A r \in DOMAIN rows : \A c \in DOMAIN rows[r] : Serializable(rows[r][c])
       THEN prep' = [prep EXCEPT !.pc = "encoded",
                        !.wire = [r \in DOMAIN rows |->
                                    [c \in DOMAIN rows[r] |-> dumps_cell(rows[r][c])]]]
       ELSE prep' = [prep EXCEPT !.pc = "TypeError"]
    /\ UNCHANGED MainVars

\* json.loads of the encoded rows.
json_loads ==
    /\ prep.pc = "encoded"
    /\ prep' = [prep EXCEPT !.pc = "decoded",
                   !.back = [r \in DOMAIN prep.wire |->
                               [c \in DOMAIN prep.wire[r] |-> loads_cell(prep.wire[r][c])]]]
    /\ UNCHANGED MainVars

NextPrepare ==
    \/ prepare_dataframe_for_sheets
    \/ json_dumps
    \/ json_loads

SpecPrepare == InitPrepare /\ [][NextPrepare]_vars

(***************************************************************************)
(* Vocabulary of the properties.                                           *)
(***************************************************************************)
\* The calls that run a retry loop.
Resilient == { "create_google_sheet", "write_dataframe_to_sheet", "move_sheet_to_folder" }

InWrite == call = "write_dataframe_to_sheet"

\* The number of rows handed to the sheet: the header and the data rows.
TotalRows == nrows + 1

\* <<1, 2, 4, ...>>: n waits, the k-th (from 0) being 2^k.
Doubling(n) == [ k \in 1..n |-> 2 ^ (k - 1) ]

\* The first n entries of h are transient failures.
FirstTransient(h, n) == n <= Len(h) /\ \A k \in 1..n : h[k] = "transient"

Fatal(kind) == kind \in { "permanent", "other" }

RECURSIVE SumSeq(_)
SumSeq(w) == IF w = << >> THEN 0 ELSE Head(w) + SumSeq(Tail(w))

RECURSIVE Bodies(_)
\* The rows of the requests of a log, concatenated in call order.
Bodies(rs) == IF rs = << >> THEN << >> ELSE Head(rs).body \o Bodies(Tail(rs))

\* The sequence of blocks s holds exactly rows 1..n, in order.
IsRows(s, n) == SheetLen(s) = n /\ \A k \in 1..n : RowAt(s, k) = k

\* ceil(a / b), by its definition.
CeilDiv(a, b) == CHOOSE q \in 0..a : q * b >= a /\ (q - 1) * b < a

\* The passes of the current call begun so far.
Passes ==
    Len(hist) + (IF callState = "running" /\ (i > 0 \/ got.read) THEN 1 ELSE 0)

\* The most requests one pass of the current call issues.
RequestsPerPass ==
    IF call = "move_sheet_to_folder" THEN 2
    ELSE IF InWrite /\ TotalRows > 5000 THEN CeilDiv(TotalRows, 5000)
    ELSE 1


(***************************************************************************)
(* C1.  Whenever write_dataframe_to_sheet returns, the sheet read back in  *)
(* order holds the header row followed by all data rows in their original  *)
(* order, none duplicated, dropped or reordered.                           *)
(***************************************************************************)
C1_SinkEqualsValues ==
    (InWrite /\ callState = "returned") => IsRows(sink, TotalRows)

(***************************************************************************)
(* C2.  As claimed: one resilient call issues at most 5 network requests.  *)
(***************************************************************************)
C2_AtMostFiveRequests ==
    call \in Resilient => Len(reqs) <= 5

\* C2, amended: one resilient call runs at most 5 passes of its retry loop,
\* and issues at most 5 requests per request of a pass: at most 5 for
\* create_google_sheet and the single write, 10 for move_sheet_to_folder and
\* 5 * ceil(rows / 5000) for the batched write.
C2_AtMostFivePasses ==
    call \in Resilient =>
        /\ Passes <= 5
        /\ Len(reqs) <= 5 * RequestsPerPass
        /\ \A k \in 1..Len(reqs) : reqs[k].retry \in 0..4

\* A batched write that used all 5 passes and issued more than 5 requests.
C2_Witness ==
    /\ InWrite
    /\ TotalRows > 5000
    /\ Len(hist) = 5
    /\ Len(reqs) > 5

(***************************************************************************)
(* C3.  For every n in 0..4: while the first n attempts of a resilient     *)
(* call have each failed with a retryable status the call is still going,  *)
(* and when attempt n+1 then succeeds the call returns without surfacing a *)
(* failure, after exactly n waits 1, 2, 4, 8 in that order.                *)
(***************************************************************************)
C3_RetryThenSuccess ==
    call \in Resilient =>
        \A n \in 0..4 :
            /\ (Len(hist) = n /\ FirstTransient(hist, n)) =>
                   /\ callState = "running"
                   /\ waits = Doubling(n)
                   /\ raised = NoError
            /\ (Len(hist) = n + 1 /\ FirstTransient(hist, n) /\ hist[n + 1] = "ok") =>
                   /\ callState = "returned"
                   /\ waits = Doubling(n)
                   /\ raised = NoError
                   /\ pc # "failed"

\* create_google_sheet returned on its fifth attempt.
C3_Witness ==
    /\ call = "create_google_sheet"
    /\ callState = "returned"
    /\ hist = << "transient", "transient", "transient", "transient", "ok" >>
    /\ waits = << 1, 2, 4, 8 >>

(***************************************************************************)
(* C4.  An attempt that fails with a non-retryable error (an HttpError     *)
(* whose status is none of 429, 500, 502, 503, 504, or another exception)  *)
(* is the last attempt and its request the last request of the call: the   *)
(* RuntimeError is raised at once, with no wait after the failure, so a    *)
(* call whose first failure is non-retryable made exactly one attempt.     *)
(***************************************************************************)
C4_FatalRaisesAtOnce ==
    call \in Resilient =>
        /\ \A k \in 1..Len(hist) :
               Fatal(hist[k]) =>
                   /\ k = Len(hist)
                   /\ Len(waits) = k - 1
                   /\ callState = "raised"
                   /\ pc = "failed"
                   /\ raised.type = "RuntimeError"
        /\ \A k \in 1..Len(reqs) : Fatal(reqs[k].kind) => k = Len(reqs)

\* The single write failed with a non-retryable status on its first attempt.
C4_Witness ==
    /\ InWrite
    /\ hist = << "permanent" >>
    /\ Len(reqs) = 1
    /\ waits = << >>
    /\ callState = "raised"

(***************************************************************************)
(* C5.  As claimed: in the batched branch a failed chunk write, retryable  *)
(* or not, is the last chunk write of the call, which does not return.     *)
(***************************************************************************)
C5_AnyFailureEndsCall ==
    (InWrite /\ TotalRows > 5000) =>
        \A k \in 1..Len(reqs) :
            reqs[k].kind # "ok" => (k = Len(reqs) /\ callState # "returned")

\* C5, amended: a failed chunk write ends the pass it belongs to.  When the
\* failure is non-retryable or happens in the fifth pass, no further chunk
\* write is issued and the call raises; otherwise the call waits and begins
\* its next pass, whose first chunk write, if build() lets it come to one,
\* is the update of chunk 0.
C5_FailureEndsPass ==
    (InWrite /\ TotalRows > 5000) =>
        \A k \in 1..Len(reqs) :
            reqs[k].kind # "ok" =>
                IF Fatal(reqs[k].kind) \/ reqs[k].retry = 4
                THEN k = Len(reqs) /\ callState = "raised" /\ raised.type = "RuntimeError"
                ELSE IF k = Len(reqs)
                THEN /\ i = 0
                     /\ retry = reqs[k].retry + 1
                     /\ callState # "returned"
                     /\ callState = "raised" => hist[Len(hist)] = "other"
                ELSE /\ reqs[k + 1].op = "update"
                     /\ reqs[k + 1].start = 1
                     /\ reqs[k + 1].retry = reqs[k].retry + 1

\* An append failed with a retryable status and the next pass began.
C5_Witness ==
    /\ InWrite
    /\ TotalRows > 5000
    /\ \E k \in 1..(Len(reqs) - 1) :
           reqs[k].op = "append" /\ reqs[k].kind = "transient"


(***************************************************************************)
(* C6.  With more than 5000 rows (header included) and no chunk write      *)
(* failing, write_dataframe_to_sheet issues exactly ceil(rows / 5000)      *)
(* write calls, the first an update at row 1 and every later one an        *)
(* append, and the chunk payloads concatenated in call order are the       *)
(* header and data rows in their order; 5201 rows go out as 5000 and 201.  *)
(***************************************************************************)
C6_BatchedCalls ==
    (InWrite /\ TotalRows > 5000 /\ callState = "returned" /\ hist = << "ok" >>) =>
        /\ Len(reqs) = CeilDiv(TotalRows, 5000)
        /\ reqs[1].op = "update"
        /\ reqs[1].start = 1
        /\ \A k \in 2..Len(reqs) : reqs[k].op = "append"
        /\ \A k \in 1..Len(reqs) : reqs[k].kind = "ok"
        /\ IsRows(Bodies(reqs), TotalRows)
        /\ TotalRows = 5201 =>
               /\ Len(reqs) = 2
               /\ IsRows(reqs[1].body, 5000)
               /\ SheetLen(reqs[2].body) = 201

\* 5200 data rows and the header were written with no failure.
C6_Witness ==
    /\ InWrite
    /\ nrows = 5200
    /\ callState = "returned"
    /\ hist = << "ok" >>
    /\ Len(reqs) = 2

(***************************************************************************)
(* C7.  As claimed: with at most 5000 rows (header included) a call of     *)
(* write_dataframe_to_sheet that returns has issued exactly one write      *)
(* call, an update at Sheet1!A1 carrying all the rows.                     *)
(***************************************************************************)
C7_ExactlyOneWrite ==
    (InWrite /\ TotalRows <= 5000 /\ callState = "returned") =>
        /\ Len(reqs) = 1
        /\ reqs[1].op = "update"
        /\ reqs[1].start = 1
        /\ IsRows(reqs[1].body, TotalRows)

\* C7, amended: with at most 5000 rows (header included) every write call of
\* write_dataframe_to_sheet is an update at Sheet1!A1 carrying all the rows,
\* never an append; each pass issues at most one, so there is exactly one
\* when the first attempt succeeds and there are at most 5 in all.
C7_OneUpdatePerPass ==
    (InWrite /\ TotalRows <= 5000) =>
        /\ \A k \in 1..Len(reqs) :
               /\ reqs[k].op = "update"
               /\ reqs[k].start = 1
               /\ IsRows(reqs[k].body, TotalRows)
               /\ reqs[k].retry = k - 1
        /\ Len(reqs) <= 5
        /\ (callState = "returned" /\ hist = << "ok" >>) => Len(reqs) = 1
        /\ callState = "returned" => IsRows(sink, TotalRows)

\* Exactly 5000 rows were written by the first attempt.
C7_Witness ==
    /\ InWrite
    /\ TotalRows = 5000
    /\ callState = "returned"
    /\ Len(reqs) = 1

(***************************************************************************)
(* C8.  When every attempt of a resilient call fails with a retryable      *)
(* status there are exactly 5 attempts with waits 1, 2, 4, 8 between them, *)
(* the wrapped failure is raised right after the fifth with no wait after  *)
(* it, and the waits of one call never sum to more than 15.                *)
(***************************************************************************)
C8_Exhaustion ==
    call \in Resilient =>
        /\ SumSeq(waits) <= 15
        /\ FirstTransient(hist, Len(hist)) =>
               /\ Len(hist) <= 5
               /\ waits = Doubling(IF Len(hist) = 5 THEN 4 ELSE Len(hist))
               /\ Len(hist) < 5 => callState = "running"
               /\ Len(hist) = 5 =>
                      /\ callState = "raised"
                      /\ pc = "failed"
                      /\ raised.type = "RuntimeError"
                      /\ raised.kind = "http"
                      /\ raised.status \in {429, 500, 502, 503, 504}

\* move_sheet_to_folder failed five times with a retryable status.
C8_Witness ==
    /\ call = "move_sheet_to_folder"
    /\ Len(hist) = 5
    /\ FirstTransient(hist, 5)
    /\ waits = << 1, 2, 4, 8 >>
    /\ callState = "raised"

(***************************************************************************)
(* C9.  The stages of main() are entered only in the order load config,    *)
(* read SQL, authenticate, query, create sheet, write data, move sheet,    *)
(* each only after the one before it returned; once a stage has failed     *)
(* nothing further happens (no sheet after a failed query, no move after a *)
(* failed write), the failure has been logged and re-raised, and 'Script   *)
(* completed successfully' is logged only when every stage returned.       *)
(***************************************************************************)
IsPrefix(a, b) == Len(a) <= Len(b) /\ a = SubSeq(b, 1, Len(a))

InLog(m) == \E k \in 1..Len(log) : log[k] = m

StageOrder ==
    << "load_config", "read_sql_from_file", "get_google_credentials",
       "execute_trino_query", "create_google_sheet", "write_dataframe_to_sheet",
       "move_sheet_to_folder" >>

C9_State ==
    /\ IsPrefix(started, StageOrder)
    /\ started # << >> => call = started[Len(started)]
    /\ (callState = "raised") = (pc = "failed")
    /\ pc = "failed" =>
           /\ raised # NoError
           /\ log # << >> /\ log[Len(log)] = "Script failed"
           /\ ~InLog("Script completed successfully")
    /\ pc # "failed" => raised = NoError /\ ~InLog("Script failed")
    /\ InLog("Script completed successfully") =>
           /\ pc = "done"
           /\ started = StageOrder
           /\ callState = "returned"
    /\ conn # "none" => Len(started) >= 4
    /\ sheet => Len(started) >= 5
    /\ sink # << >> => Len(started) >= 6
    /\ DRIVE_FOLDER \in parents => Len(started) >= 7
    /\ (call \in Resilient /\ reqs # << >>) => sheet \/ call = "create_google_sheet"

C9_Step ==
    /\ pc \in { "failed", "done" } => UNCHANGED vars
    /\ started' # started =>
           /\ started' = Append(started, pc)
           /\ started # << >> => callState = "returned"

\* C9: the stage order, the log and the effects in every state (C9_State), and
\* in every step no stage entered except after the one before it returned and
\* nothing done once the run has failed or completed (C9_Step).
C9_StagesInOrder == [](C9_State) /\ [][C9_Step]_vars

\* The write failed after the sheet was created: the sheet is never moved.
C9_Witness ==
    /\ pc = "failed"
    /\ InWrite
    /\ sheet
    /\ sink # << >>
    /\ DRIVE_FOLDER \notin parents

(***************************************************************************)
(* C10.  Every named configuration value is required: when any of them is  *)
(* missing the run fails in load_config, before the SQL file is read, and  *)
(* the failure lists every missing value.                                  *)
(***************************************************************************)
C10_AllNamedRequired ==
    (read_vars \ env # {} /\ started # << >>) =>
        /\ started = << "load_config" >>
        /\ pc = "failed"
        /\ raised.type = "ValueError"
        /\ raised.missing = read_vars \ env


(***************************************************************************)
(* C11.  As claimed: a failure to load the cached credential, to refresh   *)
(* an expired credential or of the interactive OAuth flow is the last      *)
(* authentication step of get_google_credentials, which then returns no    *)
(* credential.                                                             *)
(***************************************************************************)
InAuth == call = "get_google_credentials"

AuthFailure(step) == step \in { "load_failed", "refresh_failed", "oauth_flow_failed" }

C11_AnyAuthFailureEndsRun ==
    InAuth =>
        \A k \in 1..Len(authSteps) :
            AuthFailure(authSteps[k]) => (k = Len(authSteps) /\ callState = "raised")

\* C11, amended: a failure of the interactive OAuth flow fails the run at
\* once: it is the last step, no credential is returned and RuntimeError is
\* raised.  A failure to load the cached credential or to refresh it is not
\* surfaced: the next step is the interactive OAuth flow, whose outcome
\* decides the call.  No step is ever repeated.
C11_OnlyFlowFailureEndsRun ==
    InAuth =>
        /\ \A k \in 1..Len(authSteps) :
               /\ authSteps[k] = "oauth_flow_failed" =>
                      /\ k = Len(authSteps)
                      /\ callState = "raised"
                      /\ pc = "failed"
                      /\ raised.type = "RuntimeError"
               /\ authSteps[k] \in { "load_failed", "refresh_failed" } =>
                      /\ k < Len(authSteps)
                      /\ authSteps[k + 1] = "oauth_flow"
        /\ \A j, k \in 1..Len(authSteps) : authSteps[j] = authSteps[k] => j = k
        /\ callState = "returned" =>
               \A k \in 1..Len(authSteps) :
                   authSteps[k] \notin { "oauth_flow_failed", "save_token_failed" }

\* The cached token did not load, the OAuth flow ran and credentials came back.
C11_Witness ==
    /\ InAuth
    /\ callState = "returned"
    /\ authSteps = << "load_token", "load_failed", "oauth_flow", "save_token" >>

(***************************************************************************)
(* C12.  On every path through execute_trino_query on which the connection *)
(* was opened, the query succeeding or raising, the connection has been    *)
(* closed by the time the function returns or raises.                      *)
(***************************************************************************)
C12_ConnectionClosed ==
    (call = "execute_trino_query" /\ callState \in { "returned", "raised" }) =>
        conn # "open"


(***************************************************************************)
(* C13.  For every table of null, timestamp and primitive cells the table  *)
(* prepare_dataframe_for_sheets returns is encoded without error and       *)
(* decodes, cell by cell, to the absence marker for a null, the date       *)
(* string for a timestamp and the original value for a primitive, and the  *)
(* input table is left as it was.                                          *)
(***************************************************************************)
\* What the claim says the cell decodes to.
Expected(c) ==
    IF IsNull(c) THEN None
    ELSE IF c.t = "Timestamp" THEN Cell("str", c.v)
    ELSE c

C13_RoundTrip ==
    /\ prep.pc # "TypeError"
    /\ prep.pc \in { "prepared", "encoded", "decoded" } => prep.df = prep.orig
    /\ prep.pc = "decoded" =>
           \A r \in 1..MaxRows : \A c \in 1..MaxCols :
               prep.back[r][c] = Expected(prep.orig[c].cells[r])


(***************************************************************************)
(* C14.  In the batched branch the chunks partition the header and data    *)
(* rows exactly: each chunk is non-empty, each chunk but the last has 5000 *)
(* rows, and the range start row of chunk i, i * 5000 + 1, is one plus the *)
(* number of rows of the chunks before it in the pass, which is also the   *)
(* first row the chunk carries: no overlap, no gap, order kept.            *)
(***************************************************************************)
\* The requests of rs[1..k-1] issued in the same pass as rs[k].
RECURSIVE RowsBefore(_, _, _)
RowsBefore(rs, k, j) ==
    IF j >= k THEN 0
    ELSE (IF rs[j].retry = rs[k].retry THEN SheetLen(rs[j].body) ELSE 0)
         + RowsBefore(rs, k, j + 1)

\* The index, from 0, of request k among the requests of its pass.
IndexInPass(rs, k) == Cardinality({ j \in 1..(k - 1) : rs[j].retry = rs[k].retry })

C14_ChunksPartition ==
    (InWrite /\ TotalRows > 5000) =>
        \A k \in 1..Len(reqs) :
            /\ Len(reqs[k].body) = 1
            /\ SheetLen(reqs[k].body) >= 1
            /\ reqs[k].start = IndexInPass(reqs, k) * 5000 + 1
            /\ reqs[k].start = 1 + RowsBefore(reqs, k, 1)
            /\ reqs[k].body[1].lo = reqs[k].start
            /\ reqs[k].body[1].hi <= TotalRows
            /\ reqs[k].body[1].hi < TotalRows => SheetLen(reqs[k].body) = 5000

\* A pass wrote 10201 rows as three chunks.
C14_Witness ==
    /\ InWrite
    /\ TotalRows = 10201
    /\ Len(reqs) = 3
    /\ reqs[3].start = 10001
    /\ SheetLen(reqs[3].body) = 201

(***************************************************************************)
(* C15.  The raise placed after each retry loop is never reached: a        *)
(* resilient call ends by a return inside the loop or by a raise inside an *)
(* except clause, never by the loop running out of values.                 *)
(***************************************************************************)
C15_NoFallOut ==
    /\ raised.kind # "after retries"
    /\ call \in Resilient =>
           /\ retry \in 0..4
           /\ callState = "returned" => (hist # << >> /\ hist[Len(hist)] = "ok")
           /\ callState = "raised" =>
                  /\ hist # << >>
                  /\ hist[Len(hist)] # "ok"
                  /\ raised.type = "RuntimeError"
                  /\ raised.kind \in { "http", "other", "build" }
                  /\ Len(waits) = Len(hist) - 1

\* create_google_sheet raised in its fifth pass, from the except clause.
C15_Witness ==
    /\ call = "create_google_sheet"
    /\ callState = "raised"
    /\ retry = 4
    /\ raised.kind = "http"
    /\ raised.status = 429

(***************************************************************************)
(* C16.  When write_dataframe_to_sheet ends in a terminal failure, the     *)
(* rows committed by its successful requests stay as they were written:    *)
(* the call issued nothing but values updates and appends, the failing     *)
(* step leaves the sheet's content alone, the spreadsheet stays in place   *)
(* outside the destination folder, and nothing is done afterwards.         *)
(***************************************************************************)
\* The content of a sheet, empty at first, after the successful requests of rs.
RECURSIVE Committed(_, _)
Committed(rs, n) ==
    IF n = 0 THEN << >>
    ELSE LET before == Committed(rs, n - 1)
         IN  IF rs[n].kind # "ok" THEN before
             ELSE IF rs[n].op = "update" THEN values_update(before, rs[n].body)
             ELSE values_append(before, rs[n].body)

WriteFailed == InWrite /\ callState = "raised"

C16_State ==
    WriteFailed =>
        /\ pc = "failed"
        /\ sheet
        /\ DRIVE_FOLDER \notin parents
        /\ parents # {}
        /\ \A k \in 1..Len(reqs) : reqs[k].op \in { "update", "append" }
        /\ sink = Committed(reqs, Len(reqs))
        /\ started[Len(started)] = "write_dataframe_to_sheet"

C16_Step ==
    /\ WriteFailed => UNCHANGED vars
    /\ (InWrite /\ callState' = "raised") => UNCHANGED << sink, sheet, parents >>

C16_CommittedRowsStay == [](C16_State) /\ [][C16_Step]_vars

\* The write failed for good after at least one chunk was committed and
\* before the last one was.
C16_Witness ==
    /\ WriteFailed
    /\ sink # << >>
    /\ SheetLen(sink) < TotalRows
    /\ \E k \in 1..Len(reqs) : reqs[k].kind = "ok"

(***************************************************************************)
(* C17.  Provided every external request returns or raises, every          *)
(* resilient call and the whole run terminate: whatever failures are       *)
(* supplied, a call has returned or raised after at most 5 passes of its   *)
(* loop, no stage of main() is entered twice, and the run reaches its end  *)
(* or its failure.                                                         *)
(***************************************************************************)
C17_Bounded ==
    /\ \A a, b \in 1..Len(started) : started[a] = started[b] => a = b
    /\ call \in Resilient =>
           /\ Len(hist) <= 5
           /\ Len(hist) = 5 => callState \in { "returned", "raised" }
           /\ callState = "running" => retry = Len(hist)

C17_Terminates == [](C17_Bounded) /\ <>(pc \in { "done", "failed" })

\* Five failures in a row were supplied to the single write: it raised.
C17_Witness ==
    /\ InWrite
    /\ TotalRows <= 5000
    /\ Len(hist) = 5
    /\ \A k \in 1..5 : hist[k] = "transient"
    /\ pc = "failed"

(***************************************************************************)
(* C18.  In the batched branch one retry budget of 5 passes is shared by   *)
(* the whole sequence of chunks: after a retryable failure of chunk j the  *)
(* next pass issues the update of chunk 0 again and then appends again the *)
(* chunks 1..j-1 that the pass before had committed, and neither the pass  *)
(* counter nor the backoff is reset when the loop goes from one chunk to   *)
(* the next.                                                               *)
(***************************************************************************)
Batched == InWrite /\ TotalRows > 5000

C18_State ==
    Batched =>
        /\ Len(hist) <= 5
        /\ waits = Doubling(Len(waits))
        /\ callState = "running" => retry = Len(waits)
        /\ \A k \in 1..Len(reqs) :
               /\ reqs[k].retry =
                      Cardinality({ n \in 1..(k - 1) : reqs[n].kind # "ok" })
               /\ (reqs[k].kind = "transient" /\ k < Len(reqs)) =>
                      LET j == IndexInPass(reqs, k) IN
                      \A m \in 0..j :
                          (k + 1 + m <= Len(reqs)
                           /\ reqs[k + 1 + m].retry = reqs[k].retry + 1) =>
                              /\ IndexInPass(reqs, k + 1 + m) = m
                              /\ reqs[k + 1 + m].op = (IF m = 0 THEN "update" ELSE "append")
                              /\ reqs[k + 1 + m].start = reqs[k - j + m].start
                              /\ reqs[k + 1 + m].body = reqs[k - j + m].body

C18_Step ==
    (Batched /\ Batched') =>
        /\ retry' >= retry
        /\ IsPrefix(waits, waits')
        /\ i' > i => (retry' = retry /\ waits' = waits /\ hist' = hist)
        /\ retry' > retry => (i' = 0 /\ waits' = Append(waits, 2 ^ retry))

C18_SharedBudget == [](C18_State) /\ [][C18_Step]_vars

\* Chunk 2 failed with a retryable status after chunks 0 and 1 were
\* committed; the next pass wrote chunk 0 and appended chunk 1 once more.
C18_Witness ==
    /\ Batched
    /\ \E k \in 3..Len(reqs) :
           /\ reqs[k].kind = "transient"
           /\ IndexInPass(reqs, k) = 2
           /\ k + 2 <= Len(reqs)
           /\ reqs[k + 2].op = "append"
           /\ reqs[k + 2].kind = "ok"
           /\ reqs[k + 2].retry = reqs[k].retry + 1
           /\ SheetLen(sink) > SheetLen(reqs[k + 1].body) + SheetLen(reqs[k + 2].body)

(***************************************************************************)
(* C19.  Every pass of move_sheet_to_folder issues the read of the file's  *)
(* parents before the metadata update, issues the update only after the    *)
(* read of the same pass succeeded, and removes exactly the parents that   *)
(* read returned; when the call returns, the file's only parent is the     *)
(* destination folder.                                                     *)
(***************************************************************************)
InMove == call = "move_sheet_to_folder"

C19_State ==
    InMove =>
        /\ \A k \in 1..Len(reqs) :
               /\ IndexInPass(reqs, k) \in { 0, 1 }
               /\ reqs[k].op = (IF IndexInPass(reqs, k) = 0 THEN "get" ELSE "update_parents")
               /\ reqs[k].op = "update_parents" =>
                      /\ reqs[k - 1].op = "get"
                      /\ reqs[k - 1].kind = "ok"
                      /\ reqs[k - 1].retry = reqs[k].retry
                      /\ reqs[k].body = reqs[k - 1].body
                      /\ reqs[k].body = << { "root" } >>
        /\ (got.read /\ callState = "running") =>
               /\ reqs # << >>
               /\ reqs[Len(reqs)].op = "get"
               /\ reqs[Len(reqs)].kind = "ok"
               /\ reqs[Len(reqs)].retry = retry
               /\ reqs[Len(reqs)].body = << got.parents >>
        /\ callState = "returned" =>
               /\ parents = { DRIVE_FOLDER }
               /\ reqs[Len(reqs)].op = "update_parents"
               /\ reqs[Len(reqs)].kind = "ok"
        /\ callState # "returned" => parents = { "root" }

C19_Step ==
    (InMove /\ parents' # parents) =>
        /\ got.read
        /\ got.parents = parents
        /\ parents' = { DRIVE_FOLDER }
        /\ callState' = "returned"

C19_ReadThenUpdate == [](C19_State) /\ [][C19_Step]_vars

\* The update failed once with a retryable status; the next pass read the
\* parents again and moved the file.
C19_Witness ==
    /\ InMove
    /\ callState = "returned"
    /\ Len(reqs) = 4
    /\ reqs[2].op = "update_parents"
    /\ reqs[2].kind = "transient"
    /\ reqs[3].op = "get"
    /\ parents = { DRIVE_FOLDER }

====
